---- MODULE Spec2Model ----
(***************************************************************************)
(* Long-poll notification broker (src/index.js).                           *)
(*                                                                         *)
(* The model follows the request handlers of the HTTP server created at    *)
(* line 220 and the shutdown handler of lines 208-218.  A connection is    *)
(* one (req, res) pair handed to handleRequest.  Every callback of the     *)
(* source (handler body, request 'end', fetch continuation, request        *)
(* 'close', socket timeout, termination signal, exit timer) is one action. *)
(* JavaScript ReferenceErrors raised by identifiers that the source never  *)
(* declares (urlParsed, parseFunctionResponse) are modelled as the         *)
(* exceptions they are, caught by the try/catch of handleRequest.          *)
(* The start-up diagnostics of lines 222-233 are outside the model: Init   *)
(* is the server of line 220 accepting requests with an empty registry.    *)
(***************************************************************************)
EXTENDS Integers, Sequences, FiniteSets, TLC

VARIABLES
    subscribers,  \* the registry object: device id -> array of responses
    pc,           \* per connection: position of its handler chain
    reqDev,       \* per connection: the deviceId its callbacks closed over
    statusCode,   \* per connection: res.statusCode
    ends,         \* per connection: the calls of res.end made so far, in order
    closeListener,\* per connection: req.on('close') listener of saveSubscriber attached
    closed,       \* per connection: the request's 'close' event: "no" (not emitted),
                  \*   "unheard" (emitted with no listener), "heard" (the listener ran)
    timer,        \* per connection: the socket timeout callback of saveSubscriber
    shutdowns,    \* number of gracefullyShutdown invocations so far
    phase         \* "running" | "exited" | "crashed"

vars == <<subscribers, pc, reqDev, statusCode, ends, closeListener, closed,
          timer, shutdowns, phase>>

----------------------------------------------------------------------------
(* Bounds *)

MaxConn == 3
NumDevices == 2
MaxShutdown == 2

Conn == 1..MaxConn
Device == 1..NumDevices

(* Inputs *)

NoDevice == 0
Method == {"GET", "POST", "OPTIONS"}
Path == {"/subscribe", "/publish"}
Code == {"test-subscription-key", "test-publish-key"}
\* upstream payloads and POST bodies, of lengths 0, 1, 2, 3 and more
Payload == {"", "0", "{}", "1.5", "17.2"}
Message == {"", "{}", "[1]", "{\"t\":1}"}

(* Configuration *)

subscriptionKey == "test-subscription-key"
publishKey == "test-publish-key"

----------------------------------------------------------------------------
(* Helpers *)

\* one call of res.end: who called it, res.statusCode at that moment, the body
EndCall(by, status, body) == [by |-> by, status |-> status, body |-> body]

\* Object.keys(subscribers[deviceId] || {}).length
subscriberCount(d) ==
    IF d \in DOMAIN subscribers THEN Len(subscribers[d]) ELSE 0

\* the connections in an array of the registry
Range(s) == {s[i] : i \in DOMAIN s}

\* the connections the registry holds for device d
Held(d) == IF d \in DOMAIN subscribers THEN Range(subscribers[d]) ELSE {}

\* the threshold off by one: data.length < 2
IsEmpty_strict(data) == Len(data) < 2

\* data.length <= 2 / message.length <= 2
IsEmpty(data) == Len(data) <= 2

\* array.filter((subscriber) => subscriber !== res)
Filter(s, c) == SelectSeq(s, LAMBDA x : x # c)

\* what the peer receives: the first res.end sends status and body and
\* finishes the response; a later res.end on it sends nothing
Responded(c) == ends[c] # <<>>
Response(c) == ends[c][1]

\* the number of res.end calls the caller `by` has made on connection c
EndsBy(c, by) == Cardinality({i \in DOMAIN ends[c] : ends[c][i].by = by})

\* c went through saveSubscriber (its listener is attached from then on)
Registered(c) == closeListener[c]

\* res.end(body) on every connection of the set S, by the caller `by`
EndAll(S, by, body) ==
    [c \in Conn |-> IF c \in S
                    THEN Append(ends[c], EndCall(by, statusCode[c], body))
                    ELSE ends[c]]

----------------------------------------------------------------------------
Init ==
    /\ subscribers = <<>>
    /\ pc = [c \in Conn |-> "idle"]
    /\ reqDev = [c \in Conn |-> NoDevice]
    /\ statusCode = [c \in Conn |-> 200]
    /\ ends = [c \in Conn |-> <<>>]
    /\ closeListener = [c \in Conn |-> FALSE]
    /\ closed = [c \in Conn |-> "no"]
    /\ timer = [c \in Conn |-> "off"]
    /\ shutdowns = 0
    /\ phase = "running"

----------------------------------------------------------------------------
(* sendDataToSubscribers(deviceId, data), lines 196-206: the registry and  *)
(* the res.end calls it leaves behind.                                     *)

\* line 205 left out: the array is iterated but not replaced
sendDataToSubscribers_keeps(d) ==
    [k \in DOMAIN subscribers \cup {d} |->
        IF k \in DOMAIN subscribers THEN subscribers[k] ELSE <<>>]

sendDataToSubscribers_subscribers(d) ==
    [k \in DOMAIN subscribers \cup {d} |->
        IF k = d THEN <<>> ELSE subscribers[k]]

\* every connection of every device ended, not only those of deviceId
sendDataToSubscribers_everyone(d, data) ==
    EndAll(UNION {Held(k) : k \in DOMAIN subscribers \cup {d}},
           "sendDataToSubscribers", data)

sendDataToSubscribers_ends(d, data) ==
    EndAll(Held(d), "sendDataToSubscribers", data)

\* lines 150-153 with the array replaced instead of pushed to
saveSubscriber_overwrites(c, d) ==
    [k \in DOMAIN subscribers \cup {d} |->
        IF k = d THEN <<c>> ELSE subscribers[k]]

(* saveSubscriber, lines 150-153: create the array if absent, push res *)
saveSubscriber_subscribers(c, d) ==
    [k \in DOMAIN subscribers \cup {d} |->
        IF k = d
        THEN Append(IF d \in DOMAIN subscribers THEN subscribers[d] ELSE <<>>, c)
        ELSE subscribers[k]]

\* line 162 left out: no timeout is set on the socket
saveSubscriber_noTimer(c) == timer

(* saveSubscriber, lines 161-165: the timeout callback is set on the socket *)
saveSubscriber_timer(c) == [timer EXCEPT ![c] = "armed"]

\* line 158 with the test inverted: filter((subscriber) => subscriber === res)
closeListener_inverted(c, d) ==
    [k \in DOMAIN subscribers |->
        IF k = d THEN SelectSeq(subscribers[k], LAMBDA x : x = c)
        ELSE subscribers[k]]

(* the 'close' listener of saveSubscriber, line 158 *)
closeListener_subscribers(c, d) ==
    [k \in DOMAIN subscribers |->
        IF k = d THEN Filter(subscribers[k], c) ELSE subscribers[k]]

----------------------------------------------------------------------------
(* handleRequest(req, res), lines 32-98, with the synchronous part of      *)
(* handleSubscribeRequest, lines 100-126.  The route names the path taken  *)
(* through the handler:                                                    *)
(*   "ping"          line 57, return                                       *)
(*   "missingDevice" line 71, return                                       *)
(*   "badKey"        line 78, return                                       *)
(*   "subscribePost" line 81, listeners of lines 106-116 attached, then    *)
(*                   line 84 evaluates the undeclared urlParsed and throws *)
(*   "subscribeGet"  line 123 calls GetDeviceData, then evaluates the      *)
(*                   undeclared parseFunctionResponse and throws           *)
(*   "throws"        line 84 evaluates the undeclared urlParsed and throws *)
(* Every throw lands in the catch of lines 93-97.                          *)

Route(ping, method, path, device, code) ==
    IF ping THEN "ping"
    ELSE IF device = NoDevice THEN "missingDevice"
    ELSE IF path = "/subscribe" /\ code # subscriptionKey THEN "badKey"
    ELSE IF path = "/subscribe" /\ method = "POST" THEN "subscribePost"
    ELSE IF path = "/subscribe" /\ method = "GET" THEN "subscribeGet"
    ELSE "throws"

\* line 84 spelled parsedUrl: a POST /subscribe returns without throwing
Throws_subscribeReturns(route) == route \in {"subscribeGet", "throws"}

Throws(route) == route \in {"subscribePost", "subscribeGet", "throws"}

\* the routes that return right after their own res.end (lines 57, 71, 78)
Returns(route) == route \in {"ping", "missingDevice", "badKey"}

handleRequest(c, ping, method, path, device, code) ==
    LET route == Route(ping, method, path, device, code)
        \* lines 64-67: the OPTIONS branch ends the response and goes on
        preflight == IF ~ping /\ method = "OPTIONS"
                     THEN <<EndCall("handleRequest", 200, "")>> ELSE <<>>
        status == CASE route = "missingDevice" -> 400
                    [] route = "badKey" -> 403
                    [] Throws(route) -> 500
                    [] OTHER -> 200
        body == CASE route = "ping" -> "{\"ping\": \"success\"}"
                  [] route = "missingDevice" -> "{\"error\": \"Missing 'device' query parameter\"}"
                  [] route = "badKey" -> "{\"error\": \"Invalid subscription key\"}"
                  [] OTHER -> ""
        by == IF Throws(route) THEN "catch" ELSE "handleRequest"
    IN  /\ phase = "running"
        /\ pc[c] = "idle"
        /\ \A b \in Conn : b < c => pc[b] # "idle"
        /\ pc' = [pc EXCEPT ![c] =
                    CASE route = "subscribePost" -> "body"
                      [] route = "subscribeGet" -> "orphan"
                      [] OTHER -> "done"]
        \* deviceId lives on in the closures of lines 106-116 only
        /\ reqDev' = [reqDev EXCEPT ![c] =
                        IF route = "subscribePost" THEN device ELSE NoDevice]
        /\ statusCode' = [statusCode EXCEPT ![c] = status]
        /\ ends' = [ends EXCEPT ![c] =
                      preflight \o (IF Returns(route) \/ Throws(route)
                                    THEN <<EndCall(by, status, body)>> ELSE <<>>)]
        /\ UNCHANGED <<subscribers, closeListener, closed, timer, shutdowns, phase>>

(* the request's 'end' listener, lines 108-116 *)
requestEnd(c, message) ==
    /\ phase = "running"
    /\ pc[c] = "body"
    /\ pc' = [pc EXCEPT ![c] =
                IF IsEmpty(message) THEN "GetDeviceData" ELSE "GetSetDeviceData"]
    /\ UNCHANGED <<subscribers, reqDev, statusCode, ends, closeListener, closed,
                   timer, shutdowns, phase>>

(* parseDatabaseResponse(req, res, deviceId, data), lines 182-194, run as  *)
(* the continuation of GetDeviceData / GetSetDeviceData (lines 113, 115).  *)
parseDatabaseResponse(c, data) ==
    LET d == reqDev[c] IN
    /\ phase = "running"
    /\ pc[c] \in {"GetDeviceData", "GetSetDeviceData"}
    /\ pc' = [pc EXCEPT ![c] = "done"]
    /\ IF IsEmpty(data)
       THEN \* saveSubscriber(req, res, deviceId), lines 146-166
            /\ subscribers' = saveSubscriber_subscribers(c, d)
            /\ closeListener' = [closeListener EXCEPT ![c] = TRUE]
            /\ timer' = saveSubscriber_timer(c)
            /\ ends' = ends
       ELSE \* sendDataToSubscribers(deviceId, data); res.end(data)
            /\ subscribers' = sendDataToSubscribers_subscribers(d)
            /\ ends' = [sendDataToSubscribers_ends(d, data) EXCEPT ![c] =
                          Append(@, EndCall("parseDatabaseResponse", statusCode[c], data))]
            /\ UNCHANGED <<closeListener, timer>>
    /\ UNCHANGED <<reqDev, statusCode, closed, shutdowns, phase>>

(* The promise of line 123 settles: no continuation was attached to it. *)
orphanResolve(c) ==
    /\ phase = "running"
    /\ pc[c] = "orphan"
    /\ pc' = [pc EXCEPT ![c] = "done"]
    /\ UNCHANGED <<subscribers, reqDev, statusCode, ends, closeListener, closed,
                   timer, shutdowns, phase>>

(* The fetch of lines 170/175 rejects.  Lines 113, 115 and 123 attach no   *)
(* rejection handler: the rejection is unhandled, which the runtime either *)
(* reports and survives or turns into the end of the process.              *)
fetchReject(c, fatal) ==
    /\ phase = "running"
    /\ pc[c] \in {"GetDeviceData", "GetSetDeviceData", "orphan"}
    /\ pc' = [pc EXCEPT ![c] = "done"]
    /\ phase' = IF fatal THEN "crashed" ELSE phase
    /\ UNCHANGED <<subscribers, reqDev, statusCode, ends, closeListener, closed,
                   timer, shutdowns>>

(* req 'close': the listener of lines 156-159 runs if it is attached; a    *)
(* 'close' emitted before saveSubscriber attached it is lost to it.        *)
requestClose(c) ==
    /\ phase = "running"
    /\ pc[c] \in {"body", "GetDeviceData", "GetSetDeviceData"} \/ closeListener[c]
    /\ closed[c] = "no"
    /\ closed' = [closed EXCEPT ![c] = IF closeListener[c] THEN "heard" ELSE "unheard"]
    /\ subscribers' = IF closeListener[c]
                      THEN closeListener_subscribers(c, reqDev[c])
                      ELSE subscribers
    /\ UNCHANGED <<pc, reqDev, statusCode, ends, closeListener, timer,
                   shutdowns, phase>>

(* the socket timeout callback, lines 162-165 *)
socketTimeout(c) ==
    /\ phase = "running"
    /\ timer[c] = "armed"
    /\ timer' = [timer EXCEPT ![c] = "fired"]
    /\ ends' = [ends EXCEPT ![c] = Append(@, EndCall("socketTimeout", statusCode[c], ""))]
    /\ UNCHANGED <<subscribers, pc, reqDev, statusCode, closeListener, closed,
                   shutdowns, phase>>

\* the loop of line 210 left after its first device
gracefullyShutdown_firstOnly ==
    EndAll(IF DOMAIN subscribers = {} THEN {}
           ELSE Held(CHOOSE d \in DOMAIN subscribers :
                        \A k \in DOMAIN subscribers : d <= k),
           "gracefullyShutdown", "")

(* gracefullyShutdown, lines 210-216: res.end() on every response of every *)
(* array of the registry                                                   *)
gracefullyShutdown_ends ==
    EndAll(UNION {Held(d) : d \in DOMAIN subscribers}, "gracefullyShutdown", "")

(* gracefullyShutdown(), lines 208-218 *)
gracefullyShutdown ==
    /\ phase = "running"
    /\ shutdowns < MaxShutdown
    /\ ends' = gracefullyShutdown_ends
    /\ shutdowns' = shutdowns + 1
    /\ UNCHANGED <<subscribers, pc, reqDev, statusCode, closeListener, closed,
                   timer, phase>>

(* setTimeout(process.exit, 1000), line 217 *)
processExit ==
    /\ phase = "running"
    /\ shutdowns > 0
    /\ phase' = "exited"
    /\ UNCHANGED <<subscribers, pc, reqDev, statusCode, ends, closeListener,
                   closed, timer, shutdowns>>

----------------------------------------------------------------------------
Next ==
    \/ \E c \in Conn, ping \in BOOLEAN, method \in Method, path \in Path,
          device \in Device \cup {NoDevice}, code \in Code :
            handleRequest(c, ping, method, path, device, code)
    \/ \E c \in Conn, message \in Message : requestEnd(c, message)
    \/ \E c \in Conn, data \in Payload : parseDatabaseResponse(c, data)
    \/ \E c \in Conn : orphanResolve(c)
    \/ \E c \in Conn, fatal \in BOOLEAN : fetchReject(c, fatal)
    \/ \E c \in Conn : requestClose(c)
    \/ \E c \in Conn : socketTimeout(c)
    \/ gracefullyShutdown
    \/ processExit

Spec == Init /\ [][Next]_vars

\* The server left to itself: no termination signal arrives.  The socket
\* timer of a registered connection is a timer of the runtime: once set it
\* fires unless the process ends first.
NextNoSignal ==
    \/ \E c \in Conn, ping \in BOOLEAN, method \in Method, path \in Path,
          device \in Device \cup {NoDevice}, code \in Code :
            handleRequest(c, ping, method, path, device, code)
    \/ \E c \in Conn, message \in Message : requestEnd(c, message)
    \/ \E c \in Conn, data \in Payload : parseDatabaseResponse(c, data)
    \/ \E c \in Conn : orphanResolve(c)
    \/ \E c \in Conn, fatal \in BOOLEAN : fetchReject(c, fatal)
    \/ \E c \in Conn : requestClose(c)
    \/ \E c \in Conn : socketTimeout(c)

FairSpec ==
    Init /\ [][NextNoSignal]_vars /\ \A c \in Conn : WF_vars(socketTimeout(c))

TypeOK ==
    /\ DOMAIN subscribers \subseteq Device
    /\ \A d \in DOMAIN subscribers : Range(subscribers[d]) \subseteq Conn
    /\ phase \in {"running", "exited", "crashed"}

----------------------------------------------------------------------------
(* Properties *)

\* a delivery: parseDatabaseResponse classified `data` as real and ran
\* sendDataToSubscribers for the device of connection c
Delivery(c, data) == parseDatabaseResponse(c, data) /\ ~IsEmpty(data)

\* the res.end calls made on c by delivery, timeout and shutdown
Resolutions(c) ==
    EndsBy(c, "sendDataToSubscribers") + EndsBy(c, "socketTimeout")
        + EndsBy(c, "gracefullyShutdown")

\* C1: every response registered by saveSubscriber is ended at most once by
\* delivery, timeout and shutdown together, whatever their interleaving.
C1_ResolvedAtMostOnce ==
    \A c \in Conn : Registered(c) => Resolutions(c) <= 1

\* C2: every connection a real-payload delivery finds in the registry is
\* resolved with exactly that payload: the response its peer receives is the
\* res.end(data) of the delivery.
C2_DeliveredPayloadReceived ==
    \A c \in Conn : \A i \in DOMAIN ends[c] :
        ends[c][i].by = "sendDataToSubscribers" => Response(c) = ends[c][i]

\* C3: a subscribe request whose fetch returned an empty payload is held: as
\* long as no delivery, timeout, close or shutdown has touched it, it is in
\* the registry under its identifier and nothing has been sent on it.
C3_EmptyFetchLeavesHeld ==
    \A c \in Conn :
        (/\ Registered(c)
         /\ timer[c] = "armed"
         /\ closed[c] = "no"
         /\ EndsBy(c, "sendDataToSubscribers") = 0
         /\ EndsBy(c, "gracefullyShutdown") = 0)
        => (c \in Held(reqDev[c]) /\ ~Responded(c))

\* C4: a real-payload delivery for an identifier delivers exactly once to
\* every connection registered for it, leaves the identifier mapped to an
\* empty array (present, count 0), and delivers to no other connection; so
\* no connection is ever delivered to twice.
C4_DeliveredOnceAndCleared ==
    [][\A c \in Conn, data \in Payload, d \in Device :
          (Delivery(c, data) /\ d = reqDev[c]) =>
              /\ d \in DOMAIN subscribers'
              /\ subscribers'[d] = <<>>
              /\ \A h \in Conn :
                    EndsBy(h, "sendDataToSubscribers")' =
                        IF h \in Held(d) THEN 1 ELSE EndsBy(h, "sendDataToSubscribers")
      ]_vars

\* C4 witness: c was registered and drained by a delivery, two deliveries have
\* run for its identifier, and the identifier maps to an empty array.
C4_Witness ==
    \E c \in Conn :
        /\ Registered(c)
        /\ EndsBy(c, "sendDataToSubscribers") = 1
        /\ reqDev[c] \in DOMAIN subscribers
        /\ subscribers[reqDev[c]] = <<>>
        /\ Cardinality({a \in Conn : /\ reqDev[a] = reqDev[c]
                                     /\ EndsBy(a, "parseDatabaseResponse") = 1}) >= 2

\* C5: a publish-signal for an identifier with no held connection starts no
\* upstream fetch and is answered at once with the 204 acknowledgement of
\* line 142 and no body.
C5_PublishNoListenersAcknowledged ==
    [][\A c \in Conn, d \in Device :
          (handleRequest(c, FALSE, "POST", "/publish", d, publishKey)
              /\ subscriberCount(d) = 0) =>
              /\ pc'[c] = "done"
              /\ ends'[c] = <<EndCall("handlePublishRequest", 204, "")>>
      ]_vars

\* C7: a subscribe request whose fetch returned a real payload is answered
\* with exactly that payload, and its connection is never registered.
C7_RealFetchAnsweredWithPayload ==
    \A c \in Conn : \A i \in DOMAIN ends[c] :
        ends[c][i].by = "parseDatabaseResponse" =>
            (Response(c) = ends[c][i] /\ ~Registered(c))

\* C8: once the timeout of a held connection has fired, the connection has
\* been ended with an empty body and is no longer in the registry.
C8_TimeoutRemovesFromRegistry ==
    \A c \in Conn :
        timer[c] = "fired" =>
            /\ \E i \in DOMAIN ends[c] :
                  ends[c][i].by = "socketTimeout" /\ ends[c][i].body = ""
            /\ c \notin Held(reqDev[c])

\* C9: the timeout callback never runs on a connection that a delivery or a
\* shutdown has already resolved (the timer was disarmed by that resolution).
C9_TimeoutDisarmedOnceResolved ==
    [][\A c \in Conn :
          socketTimeout(c) =>
              /\ EndsBy(c, "sendDataToSubscribers") = 0
              /\ EndsBy(c, "gracefullyShutdown") = 0
      ]_vars

\* C10: the peer-close removal of c ends no response, raises no error (the
\* array it filters exists), takes c and nothing else out of the registry,
\* and changes nothing at all when c is no longer in the registry.
C10_CloseRemovesOnlyItself ==
    [][\A c \in Conn :
          requestClose(c) =>
              /\ ends' = ends
              /\ Registered(c) => reqDev[c] \in DOMAIN subscribers
              /\ DOMAIN subscribers' = DOMAIN subscribers
              /\ \A d \in DOMAIN subscribers :
                    /\ Range(subscribers'[d]) =
                          Range(subscribers[d]) \ (IF Registered(c) THEN {c} ELSE {})
                    /\ Len(subscribers'[d]) = Cardinality(Range(subscribers'[d]))
              /\ c \notin Held(reqDev[c]) => subscribers' = subscribers
      ]_vars

\* C10 witness: the close listener of c has run after a delivery drained c,
\* while another connection, registered since, is held for the same identifier.
C10_Witness ==
    \E c \in Conn, h \in Conn :
        /\ h # c
        /\ closed[c] = "heard"
        /\ EndsBy(c, "sendDataToSubscribers") = 1
        /\ h \in Held(reqDev[c])

\* every connection in some array of the registry
AllHeld == UNION {Held(d) : d \in DOMAIN subscribers}

\* C11: a shutdown calls res.end() with no body once on every connection held
\* in the registry, whatever its identifier, and on no other connection; the
\* process exits only after a shutdown has run.
C11_ShutdownEndsEveryHeld ==
    [][/\ gracefullyShutdown =>
            \A c \in Conn :
                ends'[c] = IF c \in AllHeld
                           THEN Append(ends[c],
                                       EndCall("gracefullyShutdown", statusCode[c], ""))
                           ELSE ends[c]
       /\ processExit => shutdowns > 0
      ]_vars

\* C11 witness: the process has exited after a shutdown that ended two held
\* connections of different identifiers.
C11_Witness ==
    /\ phase = "exited"
    /\ \E a \in Conn, b \in Conn :
          /\ reqDev[a] # reqDev[b]
          /\ a \in Held(reqDev[a]) /\ b \in Held(reqDev[b])
          /\ EndsBy(a, "gracefullyShutdown") = 1
          /\ EndsBy(b, "gracefullyShutdown") = 1

\* C12: however often gracefullyShutdown is invoked, no connection is ended
\* by it more than once.
C12_ShutdownIdempotent ==
    \A c \in Conn : EndsBy(c, "gracefullyShutdown") <= 1

C15_HeldEventuallyResolved ==
    \A c \in Conn :
        Registered(c) ~>
            (\/ Resolutions(c) >= 1
             \/ c \notin Held(reqDev[c])
             \/ phase # "running")

\* C15 witness: the timeout alone ended the wait of a connection that no
\* delivery, close or shutdown has touched.
C15_Witness ==
    \E c \in Conn :
        /\ Registered(c)
        /\ timer[c] = "fired"
        /\ closed[c] = "no"
        /\ shutdowns = 0
        /\ EndsBy(c, "sendDataToSubscribers") = 0
        /\ EndsBy(c, "socketTimeout") = 1

\* C16: a fetched payload parks its connection iff its length is at most 2
\* and is delivered otherwise; a POST body goes to the plain fetch iff its
\* length is at most 2 and to the fetch-and-set call otherwise.
C16_ThresholdIsTwo ==
    [][/\ \A c \in Conn, data \in Payload :
            parseDatabaseResponse(c, data) =>
                /\ Registered(c)' <=> data \in {"", "0", "{}"}
                /\ c \in Held(reqDev[c])' <=> Len(data) <= 2
                /\ EndsBy(c, "parseDatabaseResponse")' = 1 <=> Len(data) > 2
       /\ \A c \in Conn, message \in Message :
            requestEnd(c, message) =>
                /\ pc'[c] = "GetDeviceData" <=> Len(message) <= 2
                /\ pc'[c] = "GetSetDeviceData" <=> Len(message) > 2
      ]_vars

\* C16 witness: an empty payload has parked one connection, a payload of
\* length 3 was delivered by another, and the body of a third request has
\* been forwarded to fetch-and-set.
C16_Witness ==
    \E a \in Conn, b \in Conn :
        /\ a \in Held(reqDev[a])
        /\ \E i \in DOMAIN ends[b] :
              /\ ends[b][i].by = "parseDatabaseResponse"
              /\ Len(ends[b][i].body) = 3
        /\ \E c \in Conn : pc[c] = "GetSetDeviceData"

\* C17: once the catch block of handleRequest has answered a request with
\* its bare 500, nothing of that request is left behind: its connection is
\* never registered and its response is not ended again.
C17_CatchLeavesNothingBehind ==
    \A c \in Conn : \A i \in DOMAIN ends[c] :
        ends[c][i].by = "catch" =>
            /\ ends[c][i].status = 500 /\ ends[c][i].body = ""
            /\ i = Len(ends[c])
            /\ ~Registered(c)

\* C18: a connection that saveSubscriber registers is in the registry after
\* the step, and a connection leaves the registry only by a delivery for its
\* identifier that ends it with the payload, or by its own close listener.
C18_RegistrationNeverLost ==
    [][/\ \A c \in Conn, data \in Payload :
            (parseDatabaseResponse(c, data) /\ IsEmpty(data)) =>
                c \in Held(reqDev[c])'
       /\ \A h \in Conn, d \in Device :
            (h \in Held(d) /\ h \notin Held(d)') =>
                \/ requestClose(h)
                \/ \E c \in Conn, data \in Payload :
                      /\ Delivery(c, data)
                      /\ ends'[h] = Append(ends[h],
                            EndCall("sendDataToSubscribers", statusCode[h], data))
      ]_vars

\* C18 witness: a connection registered after a delivery for its identifier
\* had drained another one is held in the registry.
C18_Witness ==
    \E c \in Conn, h \in Conn :
        /\ c # h
        /\ reqDev[c] = reqDev[h]
        /\ EndsBy(h, "sendDataToSubscribers") = 1
        /\ closed[h] = "no"
        /\ c \in Held(reqDev[c])
        /\ ends[c] = <<EndCall("catch", 500, "")>>

\* C19: every connection in the registry is open: no res.end has been called
\* on it.
C19_RegistryHoldsOnlyOpen ==
    \A d \in DOMAIN subscribers : \A c \in Range(subscribers[d]) : ~Responded(c)

\* C20: a delivery, a close or a timeout of a connection of one identifier
\* leaves the arrays of all other identifiers, and the responses held in
\* them, as they were.
C20_OtherIdentifiersUntouched ==
    [][\A c \in Conn :
          (\/ \E data \in Payload : Delivery(c, data)
           \/ requestClose(c)
           \/ socketTimeout(c)) =>
              \A d \in Device \ {reqDev[c]} :
                  /\ d \in DOMAIN subscribers' <=> d \in DOMAIN subscribers
                  /\ d \in DOMAIN subscribers => subscribers'[d] = subscribers[d]
                  /\ \A h \in Held(d) : ends'[h] = ends[h]
      ]_vars

\* C20 witness: one identifier has been drained by a delivery, closed on and
\* timed out, while a connection of another identifier is held with nothing
\* but the answer of its own handler on it.
C20_Witness ==
    \E a \in Conn, b \in Conn, h \in Conn :
        /\ reqDev[a] = reqDev[b] /\ reqDev[h] # reqDev[a]
        /\ EndsBy(a, "sendDataToSubscribers") = 1
        /\ closed[a] = "heard"
        /\ timer[b] = "fired"
        /\ h \in Held(reqDev[h])
        /\ Len(ends[h]) = 1

====
